---------------------------- MODULE Spec2Model ----------------------------
(***************************************************************************)
(* Model of trade_filtered_80.py: a Streamlit dashboard script.  Every     *)
(* user interaction re-runs the whole script: load_data() (memoized by     *)
(* @st.cache_data), partner_iso3 resolution, dropna, the widgets, the      *)
(* monthly / annual filter, the log10 colour column and the table.         *)
(*                                                                         *)
(* Text is modelled by TLA+ strings, character by character (TLC evaluates *)
(* Len, SubSeq and \o on strings).  A cell of a pandas frame is a record:  *)
(*   [k |-> "str", v |-> s]    a Python str                                *)
(*   [k |-> "int", v |-> n]    an int64 cell                               *)
(*   [k |-> "float", v |-> t]  a float64 cell, held in tenths (12.5 is 125)*)
(*   [k |-> "nan"]             numpy NaN (a missing cell)                  *)
(*   [k |-> "none"]            Python None                                 *)
(* A frame is [cols |-> sequence of column names, rows |-> sequence of     *)
(* rows], a row being a function from the column names to cells.           *)
(***************************************************************************)
EXTENDS Integers, Sequences, FiniteSets, TLC

VARIABLES
    csv,       \* the frame pd.read_csv returns for the remote file
    pyc,       \* the database behind pycountry.countries.lookup
    cache,     \* the entry st.cache_data holds for load_data (or NoValue)
    loads,     \* how many times the body of load_data has been executed
    data,      \* the script's global `data` when the run ended
    sel,       \* the widget values of the session
    rendered,  \* the widgets the last run rendered
    subset,    \* the script's `subset` (the filtered view) when the run ended
    display,   \* subset_display, the frame handed to st.dataframe
    lookups,   \* the names the last run passed to country_to_iso3
    err        \* the exception that ended the last run, or NoError

vars == <<csv, pyc, cache, loads, data, sel, rendered, subset, display, lookups, err>>

NoValue == [k |-> "absent"]
NoError == "ok"

(***************************************************************************)
(* Characters and Python's str methods                                     *)
(***************************************************************************)

\* U+FEFF is held by a stand-in character: like U+FEFF it is no white space,
\* has no lower-case form and sorts after every letter.
BOM == "~"

\* The characters of the model in code-point order (sorted() compares by it).
Alphabet == "\t '(),-./0123456789ABCDEFGHIJKLMNOPQRSTUVWXYZabcdefghijklmnopqrstuvwxyz~"

UpperCase == "ABCDEFGHIJKLMNOPQRSTUVWXYZ"
LowerCase == "abcdefghijklmnopqrstuvwxyz"
DigitChars == "0123456789"

Char(s, i) == SubSeq(s, i, i)

Chars(s) == {Char(s, i) : i \in 1..Len(s)}

IndexIn(c, s) == CHOOSE i \in 1..Len(s) : Char(s, i) = c

\* ord(c), up to the order
CodePointOf == [c \in Chars(Alphabet) |-> IndexIn(c, Alphabet)]

CodePoint(c) == CodePointOf[c]

\* str.isspace() of one character
IsSpace(c) == c \in {" ", "\t"}

DigitSet == Chars(DigitChars)

IsDigit(c) == c \in DigitSet

DigitValOf == [c \in DigitSet |-> IndexIn(c, DigitChars) - 1]

DigitVal(c) == DigitValOf[c]

\* str.lower() of one character
LowerOf == [c \in Chars(UpperCase) |-> Char(LowerCase, IndexIn(c, UpperCase))]

LowerChar(c) == IF c \in DOMAIN LowerOf THEN LowerOf[c] ELSE c

RECURSIVE Lower(_)
Lower(s) == IF s = "" THEN "" ELSE LowerChar(Head(s)) \o Lower(Tail(s))

RECURSIVE LStrip(_)
LStrip(s) == IF s # "" /\ IsSpace(Head(s)) THEN LStrip(Tail(s)) ELSE s

RECURSIVE RStrip(_)
RStrip(s) ==
    IF s # "" /\ IsSpace(Char(s, Len(s))) THEN RStrip(SubSeq(s, 1, Len(s) - 1)) ELSE s

\* str.strip()
Strip(s) == RStrip(LStrip(s))

\* str.replace(c, '') for a one-character c
RECURSIVE Remove(_, _)
Remove(s, c) ==
    IF s = "" THEN ""
    ELSE IF Head(s) = c THEN Remove(Tail(s), c)
    ELSE Head(s) \o Remove(Tail(s), c)

\* s[:n]
Prefix(s, n) == SubSeq(s, 1, IF Len(s) < n THEN Len(s) ELSE n)

\* s < t, as Python compares str (code point by code point, a prefix first)
RECURSIVE StrLess(_, _)
StrLess(s, t) ==
    IF t = "" THEN FALSE
    ELSE IF s = "" THEN TRUE
    ELSE IF Head(s) = Head(t) THEN StrLess(Tail(s), Tail(t))
    ELSE CodePoint(Head(s)) < CodePoint(Head(t))

\* sorted(S) for a set of str
RECURSIVE Sorted(_)
Sorted(S) ==
    IF S = {} THEN <<>>
    ELSE LET m == CHOOSE x \in S : \A y \in S \ {x} : StrLess(x, y)
         IN  <<m>> \o Sorted(S \ {m})

AllDigits(s) == \A i \in 1..Len(s) : IsDigit(Char(s, i))

RECURSIVE NatOf(_)
NatOf(s) == IF s = "" THEN 0 ELSE 10 * NatOf(SubSeq(s, 1, Len(s) - 1)) + DigitVal(Char(s, Len(s)))

RECURSIVE Digits(_)
Digits(n) ==
    IF n < 10 THEN Char(DigitChars, n + 1)
    ELSE Digits(n \div 10) \o Char(DigitChars, (n % 10) + 1)

(***************************************************************************)
(* Cells                                                                   *)
(***************************************************************************)

Str(s) == [k |-> "str", v |-> s]
Int64(n) == [k |-> "int", v |-> n]
Float(t) == [k |-> "float", v |-> t]
NaN == [k |-> "nan"]
None == [k |-> "none"]

\* pandas isna()
IsNA(c) == c \in {NaN, None}

\* str(x) for a float x held in tenths: repr keeps one fractional digit
FloatRepr(t) ==
    LET a == IF t < 0 THEN -t ELSE t
    IN  (IF t < 0 THEN "-" ELSE "") \o Digits(a \div 10) \o "." \o Digits(a % 10)

\* Series.astype(str), cell by cell (a missing cell of an object or float
\* column becomes the text "nan")
AsStr(c) ==
    CASE c.k = "str" -> c.v
      [] c.k = "int" -> (IF c.v < 0 THEN "-" \o Digits(-c.v) ELSE Digits(c.v))
      [] c.k = "float" -> FloatRepr(c.v)
      [] c.k = "nan" -> "nan"
      [] c.k = "none" -> "None"

\* float(s): the text is stripped, may carry a sign, and is "nan" (any case) or
\* digits with an optional point.  Exponents, underscores and "inf" are left
\* out: none of their characters occurs in a modelled value.
Unsigned(s) == IF s # "" /\ Head(s) \in {"+", "-"} THEN Tail(s) ELSE s

PointAt(s) == IF "." \in Chars(s) THEN IndexIn(".", s) ELSE Len(s) + 1

IntPart(s) == SubSeq(s, 1, PointAt(s) - 1)

FracPart(s) == SubSeq(s, PointAt(s) + 1, Len(s))

IsDecimal(s) ==
    /\ AllDigits(IntPart(s))
    /\ AllDigits(FracPart(s))
    /\ Len(IntPart(s)) + Len(FracPart(s)) > 0

IsFloatText(s) ==
    LET u == Unsigned(Strip(s))
    IN  Lower(u) = "nan" \/ IsDecimal(u)

\* The value float(s) returns, in tenths (exact for at most one fractional digit).
ParseFloat(s) ==
    LET t == Strip(s)
        u == Unsigned(t)
        mag == 10 * NatOf(IntPart(u))
               + (IF FracPart(u) = "" THEN 0 ELSE DigitVal(Head(FracPart(u))))
    IN  IF Lower(u) = "nan" THEN NaN
        ELSE Float(IF t # "" /\ Head(t) = "-" THEN -mag ELSE mag)


(***************************************************************************)
(* Frames                                                                  *)
(***************************************************************************)

Range(q) == {q[i] : i \in 1..Len(q)}

\* `c in t.columns`
HasCol(t, c) == c \in Range(t.cols)

\* t[c] = cells: an existing column is overwritten in place, a new one is
\* appended
Assign(t, c, cells) ==
    LET cols == IF HasCol(t, c) THEN t.cols ELSE Append(t.cols, c)
    IN  [cols |-> cols,
         rows |-> [i \in 1..Len(t.rows) |->
                     [n \in Range(cols) |-> IF n = c THEN cells[i] ELSE t.rows[i][n]]]]

\* t[c], cell by cell
Column(t, c) == [i \in 1..Len(t.rows) |-> t.rows[i][c]]

\* t[c].unique(), as a set
Unique(t, c) == {t.rows[i][c] : i \in 1..Len(t.rows)}

(***************************************************************************)
(* load_data (lines 21-74)                                                 *)
(***************************************************************************)

\* lines 41-43: .str.strip().str.lower().str.replace(U+FEFF, '')
NormalizeColumnName(name) == Remove(Lower(Strip(name)), BOM)

\* lines 39-44, on the frame.  Every modelled header keeps its names distinct.
NormalizeColumns(t) ==
    LET old == Range(t.cols)
        Src(n) == CHOOSE c \in old : NormalizeColumnName(c) = n
    IN  [cols |-> [i \in 1..Len(t.cols) |-> NormalizeColumnName(t.cols[i])],
         rows |-> [i \in 1..Len(t.rows) |->
                     [n \in {NormalizeColumnName(c) : c \in old} |-> t.rows[i][Src(n)]]]]

TextColumns == <<"period", "cmdcode", "reporterdesc", "partnerdesc">>

\* line 49: data[col].astype(str).str.strip()
StripCell(c) == Str(Strip(AsStr(c)))

\* lines 47-49
RECURSIVE StripTextColumns(_, _)
StripTextColumns(t, cols) ==
    IF cols = <<>> THEN t
    ELSE StripTextColumns(
            IF HasCol(t, Head(cols))
            THEN Assign(t, Head(cols),
                        [i \in 1..Len(t.rows) |-> StripCell(Column(t, Head(cols))[i])])
            ELSE t,
            Tail(cols))

\* Faulty variant of PeriodCell: the hyphens are left in.
PeriodCellKeepHyphen(c) == Str(Strip(AsStr(c)))

\* lines 53-58: .astype(str).str.replace('-', '').str.strip()
PeriodCell(c) == Str(Strip(Remove(AsStr(c), "-")))

\* lines 52-58
NormalizePeriod(t) ==
    IF HasCol(t, "period")
    THEN Assign(t, "period", [i \in 1..Len(t.rows) |-> PeriodCell(Column(t, "period")[i])])
    ELSE t

\* line 62: data['period'].astype(str).str[:4]
YearLength == 4

YearOf(c) == Str(Prefix(AsStr(c), YearLength))

\* lines 61-62
AddYear(t) ==
    IF HasCol(t, "period")
    THEN Assign(t, "year", [i \in 1..Len(t.rows) |-> YearOf(Column(t, "period")[i])])
    ELSE t

\* lines 67-69: the text the numeric cast is given
ValueText(c) == Remove(AsStr(c), ",")

\* line 71 raises ValueError on this cell
ValueCellFails(c) == ValueText(c) # "" /\ ~IsFloatText(ValueText(c))

\* lines 66-72 on one cell that parses
ValueCell(c) == IF ValueText(c) = "" THEN NaN ELSE ParseFloat(ValueText(c))

\* Faulty variant of ParseValues: a text that is no number becomes NaN (as
\* pd.to_numeric(errors='coerce') would make it) and the load goes on.
ParseValuesCoerce(t) ==
    IF ~HasCol(t, "primaryvalue") THEN [ok |-> TRUE, frame |-> t]
    ELSE [ok |-> TRUE,
          frame |-> Assign(t, "primaryvalue",
                           [i \in 1..Len(t.rows) |->
                              IF ValueCellFails(Column(t, "primaryvalue")[i]) THEN NaN
                              ELSE ValueCell(Column(t, "primaryvalue")[i])])]

\* lines 65-72; ok is FALSE when astype(float) raises
ParseValues(t) ==
    IF ~HasCol(t, "primaryvalue") THEN [ok |-> TRUE, frame |-> t]
    ELSE IF \E c \in Unique(t, "primaryvalue") : ValueCellFails(c)
         THEN [ok |-> FALSE, frame |-> NoValue]
    ELSE [ok |-> TRUE,
          frame |-> Assign(t, "primaryvalue",
                           [i \in 1..Len(t.rows) |-> ValueCell(Column(t, "primaryvalue")[i])])]

\* lines 39-72: the preprocessing of a frame read from the file
Preprocess(t) ==
    ParseValues(AddYear(NormalizePeriod(StripTextColumns(NormalizeColumns(t), TextColumns))))

\* lines 22-74: download, read, preprocess.  netUp: gdown fetched the file.
LoadData(file, netUp) ==
    IF ~netUp THEN [ok |-> FALSE, err |-> "DownloadError", frame |-> NoValue]
    ELSE LET r == Preprocess(file)
         IN  IF r.ok THEN [ok |-> TRUE, err |-> NoError, frame |-> r.frame]
             ELSE [ok |-> FALSE, err |-> "ValueError", frame |-> NoValue]

(***************************************************************************)
(* Country resolution (lines 81-105)                                       *)
(***************************************************************************)

country_fix ==
    ("Korea, Rep." :> "KOR") @@ ("Republic of Korea" :> "KOR") @@
    ("United States" :> "USA") @@ ("USA" :> "USA") @@
    ("Russian Federation" :> "RUS") @@ ("Viet Nam" :> "VNM") @@
    ("Iran (Islamic Republic of)" :> "IRN") @@ ("Dem. Rep. of the Congo" :> "COD") @@
    ("Congo" :> "COG") @@ ("Iran" :> "IRN") @@ ("Turkiye" :> "TUR") @@
    ("United Kingdom" :> "GBR") @@ ("Brunei Darussalam" :> "BRN") @@
    ("Cote d'Ivoire" :> "CIV") @@ ("New Caledonia" :> "NCL") @@
    ("Bolivia (Plurinational State of)" :> "BOL") @@
    ("Other Asia, nes" :> "OWA") @@
    ("Palestine" :> "PSE") @@ ("Kosovo" :> "XKX") @@ ("Taiwan" :> "TWN") @@
    ("Czechia" :> "CZE") @@ ("Dominican Rep." :> "DOM") @@
    ("China, Hong Kong SAR" :> "HKG")

\* lines 81-85: pycountry.countries.lookup matches the lower-cased name against
\* its database; LookupError becomes None
country_to_iso3(db, name) ==
    IF Lower(name) \in DOMAIN db THEN Str(db[Lower(name)]) ELSE None

\* Faulty variant of Resolve: the generic lookup is asked first.
ResolveGenericFirst(db, x) ==
    [code |-> IF country_to_iso3(db, x) # None THEN country_to_iso3(db, x)
              ELSE IF x \in DOMAIN country_fix THEN Str(country_fix[x]) ELSE None,
     asked |-> {x}]

\* line 104, the lambda: the code, and the names passed to country_to_iso3
Resolve(db, x) ==
    IF x \in DOMAIN country_fix
    THEN [code |-> Str(country_fix[x]), asked |-> {}]
    ELSE [code |-> country_to_iso3(db, x), asked |-> {x}]

\* lines 102-105
AddPartnerIso3(db, t) ==
    IF HasCol(t, "partnerdesc")
    THEN Assign(t, "partner_iso3",
                [i \in 1..Len(t.rows) |-> Resolve(db, Column(t, "partnerdesc")[i].v).code])
    ELSE t

\* the names lines 102-105 pass to country_to_iso3
LookedUp(db, t) ==
    IF HasCol(t, "partnerdesc")
    THEN UNION {Resolve(db, c.v).asked : c \in Unique(t, "partnerdesc")}
    ELSE {}

\* line 107: the columns of subset=[...]
DropnaSubset == <<"partner_iso3", "primaryvalue">>

\* Faulty variant of Dropna: no row is dropped.
DropnaKeepAll(t) == [ok |-> \A i \in 1..Len(DropnaSubset) : HasCol(t, DropnaSubset[i]), frame |-> t]

\* line 107: data.dropna(subset=['partner_iso3', 'primaryvalue']); ok is FALSE
\* when a column of the subset is missing (KeyError)
Dropna(t) ==
    IF \E i \in 1..Len(DropnaSubset) : ~HasCol(t, DropnaSubset[i])
    THEN [ok |-> FALSE, frame |-> NoValue]
    ELSE [ok |-> TRUE,
          frame |-> [t EXCEPT !.rows =
                       SelectSeq(t.rows,
                                 LAMBDA row : \A i \in 1..Len(DropnaSubset) :
                                                 ~IsNA(row[DropnaSubset[i]]))]]

(***************************************************************************)
(* The widgets (lines 112-123)                                             *)
(***************************************************************************)

\* The two options of the st.radio of line 114 ("월별" and "연도별").
Monthly == "monthly"
Annual == "annual"

\* A session that has not rendered a widget yet: the radio shows its first
\* option and no selectbox holds a value.
DefaultSession ==
    [view_mode |-> Monthly, cmdcode |-> NoValue, reporter |-> NoValue,
     period |-> NoValue, year |-> NoValue]

\* sorted(data[c].unique()), the options of a selectbox
Options(t, c) == Sorted({x.v : x \in Unique(t, c)})

\* st.selectbox: the session's value when it is an option, else the first
\* option, None when there is none
Selectbox(held, options) ==
    IF held # NoValue /\ held # None /\ held.v \in Range(options) THEN held
    ELSE IF options = <<>> THEN None
    ELSE Str(options[1])

(***************************************************************************)
(* The filter (lines 128-142)                                              *)
(***************************************************************************)

\* Faulty variant of Matches: the reporter is not compared.
MatchesIgnoringReporter(row, timeCol, time, cmdcode, reporter) ==
    /\ row[timeCol].v = AsStr(time)
    /\ row["cmdcode"].v = AsStr(cmdcode)

\* lines 129-133 and 136-140: the boolean mask; timeCol is 'period' or 'year'
Matches(row, timeCol, time, cmdcode, reporter) ==
    /\ row[timeCol].v = AsStr(time)
    /\ row["cmdcode"].v = AsStr(cmdcode)
    /\ row["reporterdesc"] = reporter

\* Series.sum(): missing values are skipped
RECURSIVE SumValues(_)
SumValues(rows) ==
    IF rows = <<>> THEN 0
    ELSE (IF IsNA(Head(rows)["primaryvalue"]) THEN 0 ELSE Head(rows)["primaryvalue"].v)
         + SumValues(Tail(rows))

GroupKeys == <<"partnerdesc", "partner_iso3">>

\* groupby drops the rows with a missing key (dropna=True)
Keyed(rows) == SelectSeq(rows, LAMBDA r : \A i \in 1..Len(GroupKeys) : ~IsNA(r[GroupKeys[i]]))

\* Faulty variant of GroupSum: a group keeps its first value (.first()).
GroupSumFirst(rows) ==
    LET names == Sorted({Keyed(rows)[i]["partnerdesc"].v : i \in 1..Len(Keyed(rows))})
        Of(n) == SelectSeq(Keyed(rows), LAMBDA r : r["partnerdesc"].v = n)
    IN  [cols |-> Append(GroupKeys, "primaryvalue"),
         rows |-> [i \in 1..Len(names) |->
                     [c \in Range(GroupKeys) \cup {"primaryvalue"} |->
                        Of(names[i])[1][c]]]]

\* line 141: groupby(['partnerdesc', 'partner_iso3'], as_index=False)
\* ['primaryvalue'].sum(); the groups come out sorted by key.  partner_iso3 is
\* a function of partnerdesc, so the keys are ordered by partnerdesc.
GroupSum(rows) ==
    LET names == Sorted({Keyed(rows)[i]["partnerdesc"].v : i \in 1..Len(Keyed(rows))})
        Of(n) == SelectSeq(Keyed(rows), LAMBDA r : r["partnerdesc"].v = n)
    IN  [cols |-> Append(GroupKeys, "primaryvalue"),
         rows |-> [i \in 1..Len(names) |->
                     [c \in Range(GroupKeys) \cup {"primaryvalue"} |->
                        IF c = "primaryvalue" THEN Float(SumValues(Of(names[i])))
                        ELSE Of(names[i])[1][c]]]]

\* lines 129-133
MonthlySubset(d, s) ==
    [d EXCEPT !.rows =
        SelectSeq(d.rows, LAMBDA r : Matches(r, "period", s.period, s.cmdcode, s.reporter))]

\* lines 136-141
AnnualSubset(d, s) ==
    GroupSum(SelectSeq(d.rows, LAMBDA r : Matches(r, "year", s.year, s.cmdcode, s.reporter)))

\* lines 128-142
Subset(d, s) == IF s.view_mode = Monthly THEN MonthlySubset(d, s) ELSE AnnualSubset(d, s)

(***************************************************************************)
(* The chart column and the table (lines 169-201)                          *)
(***************************************************************************)

\* np.log10(x) of a float cell, x.replace(0, nan) applied: kept symbolic
Log10(c) == IF IsNA(c) \/ c.v <= 0 THEN NaN ELSE [k |-> "log10", v |-> c.v]

\* lines 169-172
WithLog(v) ==
    IF v.rows = <<>> THEN v
    ELSE Assign(v, "primaryvalue_log",
                [i \in 1..Len(v.rows) |-> Log10(Column(v, "primaryvalue")[i])])

\* lines 195-198
DisplayCols(mode) ==
    IF mode = Monthly THEN <<"cmdcode", "period", "reporterdesc", "partnerdesc", "primaryvalue">>
    ELSE <<"cmdcode", "reporterdesc", "partnerdesc", "primaryvalue">>

\* line 200: subset.reindex(columns=[c for c in display_cols if c in subset.columns])
Reindex(v, mode) ==
    LET cols == SelectSeq(DisplayCols(mode), LAMBDA c : HasCol(v, c))
    IN  [cols |-> cols,
         rows |-> [i \in 1..Len(v.rows) |-> [c \in Range(cols) |-> v.rows[i][c]]]]

(***************************************************************************)
(* One run of the script                                                   *)
(***************************************************************************)

\* Faulty variant of CacheHit: every call misses (load_data not memoized).
CacheHitNever(entry) == FALSE

\* @st.cache_data (line 21): a later call finds the entry of the first

CacheHit(entry) == entry # NoValue

\* Faulty variant of CacheEntry: the entry is the object the script writes to
\* (as under st.cache_resource).
CacheEntryShared(returned, written) == written

\* @st.cache_data keeps a pickled copy of what load_data returned and hands
\* every caller an object of its own: line 103 writes the partner_iso3 column
\* into `written`, never into the entry.

CacheEntry(returned, written) == returned

\* What a run leaves behind.
Outcome(c, n, d, s, r, v, t, l, e) ==
    [cache |-> c, loads |-> n, data |-> d, sel |-> s, rendered |-> r,
     subset |-> v, display |-> t, lookups |-> l, err |-> e]

\* lines 112-201, from the frame dropna returned.  data[c] raises KeyError on
\* a missing column, after the widgets above it were rendered.  (The banner
\* of lines 147-163 and the captions only write to the page.)
Render(entry, n, d, looked, sess) ==
    LET vm == sess.view_mode
        Stop(s, r) == Outcome(entry, n, d, s, r, NoValue, NoValue, looked, "KeyError")
        s1 == [DefaultSession EXCEPT !.view_mode = vm]
    IN  IF ~HasCol(d, "cmdcode") THEN Stop(s1, {"view_mode"})
        ELSE LET s2 == [s1 EXCEPT !.cmdcode = Selectbox(sess.cmdcode, Options(d, "cmdcode"))]
        IN  IF ~HasCol(d, "reporterdesc") THEN Stop(s2, {"view_mode", "cmdcode"})
        ELSE LET s3 == [s2 EXCEPT !.reporter =
                            Selectbox(sess.reporter, Options(d, "reporterdesc"))]
        IN  IF ~HasCol(d, "period") THEN Stop(s3, {"view_mode", "cmdcode", "reporter"})
        ELSE LET s4 == [s3 EXCEPT !.period = Selectbox(sess.period, Options(d, "period"))]
                 s5 == IF vm = Annual
                       THEN [s4 EXCEPT !.year = Selectbox(sess.year, Options(d, "year"))]
                       ELSE s4
                 shown == {"view_mode", "cmdcode", "reporter", "period"}
                          \cup (IF vm = Annual THEN {"year"} ELSE {})
                 v == WithLog(Subset(d, s5))
        IN  Outcome(entry, n, d, s5, shown, v, Reindex(v, vm), looked, NoError)

\* lines 76-201: what a run leaves behind, from the session's widget values
RunScript(sess, netUp) ==
    LET hit == CacheHit(cache)
        L == IF hit THEN [ok |-> TRUE, err |-> NoError, frame |-> cache]
             ELSE LoadData(csv, netUp)
        n == IF hit THEN loads ELSE loads + 1
    IN  IF ~L.ok
        THEN Outcome(cache, n, NoValue, DefaultSession, {}, NoValue, NoValue, {}, L.err)
        ELSE LET resolved == AddPartnerIso3(pyc, L.frame)
                 entry == CacheEntry(L.frame, resolved)
                 looked == LookedUp(pyc, L.frame)
                 D == Dropna(resolved)
             IN  IF ~D.ok
                 THEN Outcome(entry, n, resolved, DefaultSession, {}, NoValue, NoValue,
                              looked, "KeyError")
                 ELSE Render(entry, n, D.frame, looked, sess)

(***************************************************************************)
(* The inputs: the file behind the URL and the pycountry database          *)
(***************************************************************************)

\* The most rows a modelled file holds.
MaxRows == 3

\* The most executions of load_data a behaviour holds (a failed load is
\* retried on every rerun).
MaxLoads == 2

\* The columns the script reads, in the file's order.
Fields == <<"period", "cmdcode", "reporterdesc", "partnerdesc", "primaryvalue">>

\* A header gives each field its raw column name, "" when the file lacks it.
CleanHeader == <<"period", "cmdCode", "reporterDesc", "partnerDesc", "primaryValue">>

HeaderPool ==
    { CleanHeader,
      <<"~Period", " cmdcode", "REPORTERDESC ", "\tpartnerDesc", "primaryvalue">>,
      <<" ~period", "cmdCode", "reporterDesc", "partnerDesc", "primaryValue">>,
      <<"~ period", "cmdCode", "reporterDesc", "partnerDesc", "primaryValue">>,
      <<"", "cmdCode", "reporterDesc", "partnerDesc", "primaryValue">>,
      <<"period", "", "reporterDesc", "partnerDesc", "primaryValue">>,
      <<"period", "cmdCode", "", "partnerDesc", "primaryValue">>,
      <<"period", "cmdCode", "reporterDesc", "", "primaryValue">>,
      <<"period", "cmdCode", "reporterDesc", "partnerDesc", "">> }

\* The rows a file is made of: the cells of the five fields as pd.read_csv
\* types them (text, int64, float64 or a missing cell).
RowPool ==
    << <<Str("2010-01"), Int64(283691), Str("X"), Str("Korea, Rep."), Str("1,234")>>,
       <<Str("201002"), Str("283691"), Str("X "), Str(" Korea, Rep."), Float(125)>>,
       <<Str("201001"), Str("283691"), Str("Y"), Str("china"), Str(" 7 ")>>,
       <<Int64(201103), Str("260500"), Str("Y"), Str("Congo"), Str("0")>>,
       <<Str("2010-01"), Str("283691"), Str("X"), Str("Areas, nes"), Str("5")>>,
       <<Str("201001"), Str("283691"), Str("X"), Str("Congo"), NaN>>,
       <<Str("2010-02"), Str("283691"), Str("X"), NaN, Str(",")>>,
       <<Str("2010/01"), Str("283691"), Str("X"), Str("Viet Nam"), Str("3.5")>>,
       <<NaN, Str("260500"), Str("Y"), Str("China"), Str("12x")>> >>

\* The frame pd.read_csv returns for a header and rows of the pool.
MakeFrame(header, picks) ==
    LET present == {i \in 1..Len(Fields) : header[i] # ""}
        Field(name) == CHOOSE i \in present : header[i] = name
    IN  [cols |-> SelectSeq(header, LAMBDA h : h # ""),
         rows |-> [j \in 1..Len(picks) |->
                     [name \in {header[i] : i \in present} |-> RowPool[picks[j]][Field(name)]]]]

\* Up to MaxRows rows of the pool, in the pool's order.
Picks ==
    {q \in UNION {[1..n -> 1..Len(RowPool)] : n \in 0..MaxRows} :
        \A i \in 1..Len(q) : \A j \in 1..Len(q) : i < j => q[i] <= q[j]}

\* The rows the files with other headers hold.
HeaderPicks == {<<1, 2, 3>>, <<4, 5, 8>>}

CsvPool ==
    {MakeFrame(CleanHeader, q) : q \in Picks}
    \cup {MakeFrame(h, q) : h \in HeaderPool, q \in HeaderPicks}

\* pycountry's database, by lower-cased name or code, for the names of the pool.
PycountryDb ==
    ("china" :> "CHN") @@ ("chn" :> "CHN") @@ ("congo" :> "COG") @@
    ("viet nam" :> "VNM") @@ ("usa" :> "USA") @@ ("united states" :> "USA")

\* A database that answers override-table names with other codes.
PycountryOtherDb ==
    ("china" :> "CHN") @@ ("chn" :> "CHN") @@ ("congo" :> "COD") @@
    ("viet nam" :> "VDR") @@ ("korea, rep." :> "PRK") @@ ("usa" :> "UMI")

(***************************************************************************)
(* The state machine                                                       *)
(***************************************************************************)

Init ==
    /\ csv \in CsvPool
    /\ pyc \in {PycountryDb, PycountryOtherDb}
    /\ cache = NoValue
    /\ loads = 0
    /\ data = NoValue
    /\ sel = DefaultSession
    /\ rendered = {}
    /\ subset = NoValue
    /\ display = NoValue
    /\ lookups = {}
    /\ err = NoError

\* The script's run with the session's widget values `sess`.  A load that
\* raised is tried again by the next run; MaxLoads bounds the tries.
Run(sess) ==
    /\ CacheHit(cache) \/ loads < MaxLoads
    /\ \E netUp \in (IF CacheHit(cache) THEN {TRUE} ELSE BOOLEAN) : \E o \in {RunScript(sess, netUp)} :
         /\ cache' = o.cache
         /\ loads' = o.loads
         /\ data' = o.data
         /\ sel' = o.sel
         /\ rendered' = o.rendered
         /\ subset' = o.subset
         /\ display' = o.display
         /\ lookups' = o.lookups
         /\ err' = o.err
    /\ UNCHANGED <<csv, pyc>>

\* A browser opens (or reloads) the page: a new session, the first run.
Open == Run(DefaultSession)

\* The user picks the other option of the radio (line 114).
ChooseViewMode ==
    /\ "view_mode" \in rendered
    /\ \E m \in {Monthly, Annual} \ {sel.view_mode} : Run([sel EXCEPT !.view_mode = m])

\* The user picks another option of a selectbox (lines 116, 118, 120, 123).
ChooseCmdcode ==
    /\ "cmdcode" \in rendered
    /\ \E c \in Range(Options(data, "cmdcode")) :
         Str(c) # sel.cmdcode /\ Run([sel EXCEPT !.cmdcode = Str(c)])

ChooseReporter ==
    /\ "reporter" \in rendered
    /\ \E r \in Range(Options(data, "reporterdesc")) :
         Str(r) # sel.reporter /\ Run([sel EXCEPT !.reporter = Str(r)])

ChoosePeriod ==
    /\ "period" \in rendered
    /\ \E p \in Range(Options(data, "period")) :
         Str(p) # sel.period /\ Run([sel EXCEPT !.period = Str(p)])

ChooseYear ==
    /\ "year" \in rendered
    /\ \E y \in Range(Options(data, "year")) :
         Str(y) # sel.year /\ Run([sel EXCEPT !.year = Str(y)])

Next ==
    \/ Open
    \/ ChooseViewMode
    \/ ChooseCmdcode
    \/ ChooseReporter
    \/ ChoosePeriod
    \/ ChooseYear

Spec == Init /\ [][Next]_vars

(***************************************************************************)
(* Properties                                                              *)
(***************************************************************************)

\* A run has ended without an exception: the view is charted and tabulated.
ViewShown == err = NoError /\ subset # NoValue

Count(q, x) == Cardinality({i \in 1..Len(q) : q[i] = x})

\* A row cut down to the columns `cols`.
Project(row, cols) == [c \in cols |-> row[c]]

RECURSIVE Total(_)
Total(rows) == IF rows = <<>> THEN 0 ELSE Head(rows)["primaryvalue"].v + Total(Tail(rows))

\* The loaded record set with its resolved codes, before any exclusion.
Resolved == AddPartnerIso3(pyc, cache)

Absent(row) == IsNA(row["partner_iso3"]) \/ IsNA(row["primaryvalue"])

\* The row agrees with the selection of the current view mode.
Selected(row) ==
    /\ row["cmdcode"] = sel.cmdcode
    /\ row["reporterdesc"] = sel.reporter
    /\ IF sel.view_mode = Monthly THEN row["period"] = sel.period ELSE row["year"] = sel.year

\* C1: no record whose partner_iso3 or value is absent is left in the record
\* set the filter reads or appears in the filtered view (the chart's frame and
\* the table), and none contributes to an annual sum: each annual value is the
\* sum over the selected records with both fields present.
C1_AbsentExcluded ==
    ViewShown =>
        /\ \A i \in 1..Len(data.rows) : ~Absent(data.rows[i])
        /\ \A i \in 1..Len(subset.rows) : ~Absent(subset.rows[i])
        /\ \A i \in 1..Len(display.rows) : ~IsNA(display.rows[i]["primaryvalue"])
        /\ \A i \in 1..Len(subset.rows) :
             LET v == subset.rows[i]
                 kept == SelectSeq(Resolved.rows,
                                   LAMBDA r : Selected(r) /\ ~Absent(r)
                                              /\ r["partnerdesc"] = v["partnerdesc"])
             IN  IF sel.view_mode = Annual
                 THEN v["primaryvalue"] = Float(Total(kept))
                 ELSE Count(kept, Project(v, Range(Resolved.cols))) > 0

\* C1 witness: a non-empty view while a record with an absent field matches
\* the selection.
C1_Witness ==
    /\ ViewShown
    /\ subset.rows # <<>>
    /\ \E i \in 1..Len(Resolved.rows) : Selected(Resolved.rows[i]) /\ Absent(Resolved.rows[i])

\* C2: a partner name that is a key of country_fix gets the table's code and is
\* never passed to the generic lookup; every other name is passed to it and
\* gets its answer, None (not an exception) when the lookup misses too.
C2_OverrideWins ==
    (cache # NoValue /\ HasCol(cache, "partnerdesc")) =>
        /\ lookups = {c.v : c \in Unique(cache, "partnerdesc")} \ DOMAIN country_fix
        /\ err \in {NoError, "KeyError"}
        /\ \A i \in 1..Len(data.rows) :
             LET n == data.rows[i]["partnerdesc"].v
                 code == data.rows[i]["partner_iso3"]
             IN  IF n \in DOMAIN country_fix THEN code = Str(country_fix[n])
                 ELSE IF Lower(n) \in DOMAIN pyc THEN code = Str(pyc[Lower(n)])
                 ELSE code = None

\* C2 witness: a run without exception in which an override name that the
\* generic lookup answers otherwise got the table's code unasked, and a name
\* that misses both was asked.
C2_Witness ==
    /\ err = NoError
    /\ cache # NoValue
    /\ pyc = PycountryOtherDb
    /\ \E i \in 1..Len(data.rows) :
         /\ data.rows[i]["partnerdesc"] = Str("Korea, Rep.")
         /\ data.rows[i]["partner_iso3"] = Str("KOR")
    /\ Str("Areas, nes") \in Unique(cache, "partnerdesc")
    /\ "Areas, nes" \in lookups
    /\ "Korea, Rep." \notin lookups

\* C3: in monthly mode the view holds exactly the retained records whose
\* period, cmdcode and reporterdesc equal the selection, each once, in order,
\* unaggregated.
C3_MonthlyExact ==
    (ViewShown /\ sel.view_mode = Monthly) =>
        [i \in 1..Len(subset.rows) |-> Project(subset.rows[i], Range(data.cols))]
            = SelectSeq(data.rows, Selected)

\* C3 witness: a non-empty monthly view while a retained record differs from
\* the selection in the reporter alone.
C3_Witness ==
    /\ ViewShown
    /\ sel.view_mode = Monthly
    /\ subset.rows # <<>>
    /\ \E i \in 1..Len(data.rows) :
         /\ data.rows[i]["period"] = sel.period
         /\ data.rows[i]["cmdcode"] = sel.cmdcode
         /\ data.rows[i]["reporterdesc"] # sel.reporter

\* C4: in annual mode the view has one row per distinct partner among the
\* retained records matching year, cmdcode and reporterdesc, and the row's
\* value is the sum of that partner's matching records.
C4_AnnualSums ==
    (ViewShown /\ sel.view_mode = Annual) =>
        LET matching == SelectSeq(data.rows, Selected)
            Partner(r) == <<r["partnerdesc"], r["partner_iso3"]>>
        IN  /\ {Partner(subset.rows[i]) : i \in 1..Len(subset.rows)}
                 = {Partner(matching[i]) : i \in 1..Len(matching)}
            /\ \A i \in 1..Len(subset.rows) : \A j \in 1..Len(subset.rows) :
                 Partner(subset.rows[i]) = Partner(subset.rows[j]) => i = j
            /\ \A i \in 1..Len(subset.rows) :
                 subset.rows[i]["primaryvalue"]
                   = Float(Total(SelectSeq(matching,
                                           LAMBDA r : Partner(r) = Partner(subset.rows[i]))))

\* C4 witness: an annual view of two partners, one of them summed over records
\* of two months.
C4_Witness ==
    /\ ViewShown
    /\ sel.view_mode = Annual
    /\ Len(subset.rows) >= 2
    /\ \E i \in 1..Len(data.rows) : \E j \in 1..Len(data.rows) :
         /\ Selected(data.rows[i]) /\ Selected(data.rows[j])
         /\ data.rows[i]["partnerdesc"] = data.rows[j]["partnerdesc"]
         /\ data.rows[i]["period"] # data.rows[j]["period"]

\* The file's column that load_data takes for `name`.
RawColumn(name) == CHOOSE c \in Range(csv.cols) : NormalizeColumnName(c) = name

FileHas(name) == \E c \in Range(csv.cols) : NormalizeColumnName(c) = name

\* The text of a raw value that is neither empty nor a number.
NotNumeric(text) == text # "" /\ ~IsFloatText(text)

\* Some raw value of the file is neither empty nor a number.
BadValueInFile ==
    /\ FileHas("primaryvalue")
    /\ \E c \in Unique(csv, RawColumn("primaryvalue")) : NotNumeric(ValueText(c))

\* Once a run has been made on a file with such a value, nothing is loaded.
LoadFailsOnBadValue ==
    (loads > 0 /\ BadValueInFile) =>
        (cache = NoValue /\ data = NoValue /\ subset = NoValue /\ err # NoError)

\* C5 as claimed: a non-numeric value fails the whole load, and only an empty
\* text (after comma removal) becomes a missing value.
C5_OnlyEmptyIsMissing ==
    /\ LoadFailsOnBadValue
    /\ (cache # NoValue /\ FileHas("primaryvalue")) =>
         \A i \in 1..Len(cache.rows) :
            cache.rows[i]["primaryvalue"] = NaN
              => ValueText(csv.rows[i][RawColumn("primaryvalue")]) = ""

\* C5 amended: a non-numeric value fails the whole load, and a value becomes
\* missing exactly when its text is empty or reads "nan" (the text of a missing
\* cell), which the numeric cast parses to NaN.
C5_EmptyOrNanIsMissing ==
    /\ LoadFailsOnBadValue
    /\ (cache # NoValue /\ FileHas("primaryvalue")) =>
         \A i \in 1..Len(cache.rows) :
            LET text == ValueText(csv.rows[i][RawColumn("primaryvalue")])
            IN  cache.rows[i]["primaryvalue"] = NaN
                  <=> (text = "" \/ Lower(Unsigned(Strip(text))) = "nan")

\* C5 witness: the load of a file with a non-numeric value ended in ValueError.
C5_Witness == BadValueInFile /\ loads > 0 /\ err = "ValueError" /\ cache = NoValue

\* The canonical name of a raw column name, however its marks and blanks mix.
Canonical(name) == NormalizeColumnName(NormalizeColumnName(name))

\* C6 as claimed: on a file that lacks one of the five columns the stages that
\* need it are skipped and the run ends without an exception.
C6_MissingColumnTolerated ==
    (cache # NoValue
     /\ \E i \in 1..Len(Fields) : \A c \in Range(csv.cols) : Canonical(c) # Fields[i])
        => err = NoError

SixDigits(s) == Len(s) = 6 /\ AllDigits(s)

\* C7 as claimed: every normalized period is a string of exactly 6 digits.
C7_PeriodSixDigits ==
    (cache # NoValue /\ HasCol(cache, "period")) =>
        \A i \in 1..Len(cache.rows) : SixDigits(cache.rows[i]["period"].v)

\* C7 amended: every normalized period holds no hyphen and no leading or
\* trailing white space, and it is a string of exactly 6 digits exactly when
\* the raw text, its hyphens and outer white space set aside, is one.
C7_PeriodNormalized ==
    (cache # NoValue /\ HasCol(cache, "period")) =>
        \A i \in 1..Len(cache.rows) :
            LET p == cache.rows[i]["period"].v
                raw == AsStr(csv.rows[i][RawColumn("period")])
            IN  /\ "-" \notin Chars(p)
                /\ p = "" \/ (~IsSpace(Head(p)) /\ ~IsSpace(Char(p, Len(p))))
                /\ SixDigits(p) <=> SixDigits(Strip(Remove(raw, "-")))

\* C7 witness: a hyphenated raw period normalized to 6 digits, next to a
\* normalized period that is not 6 digits.
C7_Witness ==
    /\ cache # NoValue
    /\ HasCol(cache, "period")
    /\ \E i \in 1..Len(cache.rows) :
         /\ "-" \in Chars(AsStr(csv.rows[i][RawColumn("period")]))
         /\ SixDigits(cache.rows[i]["period"].v)
    /\ \E i \in 1..Len(cache.rows) : ~SixDigits(cache.rows[i]["period"].v)

\* C8 as claimed: preprocessing the preprocessed frame changes neither a column
\* name nor a cell.
C8_PreprocessIdempotent ==
    cache # NoValue => Preprocess(cache) = [ok |-> TRUE, frame |-> cache]

\* C9: a session that shows a widget runs on the memoized result, and no run
\* made while the result is memoized executes load_data again.
C9_LoadOnce ==
    /\ [](rendered # {} => cache # NoValue)
    /\ [][cache # NoValue => loads' = loads]_vars

\* C9 witness: selections changed after the one load.
C9_Witness ==
    /\ loads = 1
    /\ cache # NoValue
    /\ sel.view_mode = Annual
    /\ sel.cmdcode # NoValue
    /\ sel.cmdcode # Selectbox(NoValue, Options(data, "cmdcode"))

\* C10: after every run the memoized result is the frame load_data returned
\* (no partner_iso3, no log column), the record set is that frame resolved and
\* cut to the complete records, and the view is the filter of the record set
\* by the present selection alone.
C10_RecordSetUnchanged ==
    /\ cache # NoValue => Preprocess(csv) = [ok |-> TRUE, frame |-> cache]
    /\ (cache # NoValue /\ Dropna(Resolved).ok) =>
         /\ data = Dropna(Resolved).frame
         /\ ~HasCol(data, "primaryvalue_log")
    /\ ViewShown => subset = WithLog(Subset(data, sel))

\* C10 witness: an annual view with its log column, reached after the
\* selection was changed.
C10_Witness ==
    /\ ViewShown
    /\ sel.view_mode = Annual
    /\ HasCol(subset, "primaryvalue_log")
    /\ sel.year # Selectbox(NoValue, Options(data, "year"))

=============================================================================
